---- MODULE Spec2Model ----
(***************************************************************************)
(* A model of the three harvesting scripts of vacancy-rss:                 *)
(*   main.py     (source "vdab"):     get_date, get_posting_details,       *)
(*                                    generate_feed, main                  *)
(*   editx.py    (source "editx"):    get_data, get_posting_details,       *)
(*                                    generate_feed, main                  *)
(*   cartiere.py (source "cartiere"): get_data, add_posting_details,       *)
(*                                    generate_feed, main                  *)
(* One run of one script is one behaviour.  Every HTTP request is one      *)
(* step; what the upstream answers is chosen nondeterministically.         *)
(***************************************************************************)
EXTENDS Integers, Sequences, FiniteSets, TLC

\* ------------------------------------------------------------------ bounds
\* At most MaxData references are collected by the arbitrary upstream.
MaxData == 3
\* The arbitrary editx upstream reports total and count in 0..MaxTotal.
MaxTotal == 5

\* ------------------------------------------------------- program constants
\* PAGE_COUNT with one more page.
PAGE_COUNT_plus_one == 20 + 1

PAGE_COUNT == 20
\* time.sleep(randint(3,10))
SLEEP_MIN == 3
SLEEP_MAX == 10

\* -------------------------------------------------------------- vocabulary
Sources == {"vdab", "editx", "cartiere"}
\* A key that is not in a dict (KeyError on access, None from .get()).
Absent == "<absent>"
\* The value None.
None == "<None>"
\* exit_code while the process still runs.
Running == -1

VDAB_BASE_URL == "https://www.vdab.be/vindeenjob/vacatures"
EDITX_BASE_URL == "https://editx.eu/en/it-jobs"
CARTIERE_DUMMY_URL == "https://www.cartiere.be/jobs/"

\* Timestamp strings as the upstreams send them.
TsEditx == "2025-01-02 03:04:05"
TsIso == "2025-01-02T03:04:05+00:00"
TsBad == "soon"

\* ---------------------------------------------------------------- upstream
\* A raw listing of vdab or editx, reduced to the fields the scripts read:
\*   id      entry['id']['id'] (vdab), entry['id'] (editx)
\*   title   entry['vacaturefunctie']['naam'] (vdab), entry['title'] (editx)
\*   company entry['vacatureBedrijfsnaam'] (vdab), entry['company']['label']
\*   ts      entry['eerstePublicatieDatum'] (vdab), entry['onlineDate']['value']
Item(id, title, ts) == [id |-> id, title |-> title, company |-> "Acme", ts |-> ts]

\* The listings an upstream may send: two complete ones, one with an empty
\* title, one without a title and one without an id.  A listing may come more
\* than once.
VdabItems ==
    { Item("a", "Engineer", TsIso), Item("b", "Engineer", TsIso),
      Item("b", "", TsIso),
      Item("c", Absent, TsIso), Item(Absent, "Engineer", TsIso) }

EditxItems ==
    { Item("a", "Engineer", TsEditx), Item("b", "Engineer", TsEditx),
      Item("b", "", TsEditx),
      Item("c", Absent, TsEditx), Item(Absent, "Engineer", TsEditx) }

\* The listing an upstream that never runs dry repeats on every page.
VdabEndless == Item("a", "Engineer", TsIso)

SeqsUpTo(S, n) == UNION { [1..k -> S] : k \in 0..n }

IsEndless(d) == Len(d) > 0 /\ \A k \in 1..Len(d) : d[k] = VdabEndless

\* What one vdab page may hold, given what was collected before it: any
\* listings while fewer than MaxData were collected, or the same single
\* listing again and again.
VdabPages(d) ==
    (IF Len(d) < MaxData THEN SeqsUpTo(VdabItems, MaxData - Len(d)) ELSE { <<>> })
    \cup (IF d = <<>> \/ IsEndless(d) THEN { <<VdabEndless>> } ELSE {})

EditxPages(d) ==
    IF Len(d) < MaxData THEN SeqsUpTo(EditxItems, MaxData - Len(d)) ELSE { <<>> }

\* (total, count) as page 0 of editx reports them, with the pair of the
\* documented example.
EditxHeaders == ((0..MaxTotal) \X (0..MaxTotal)) \cup { <<25, 10>> }

\* The answer to one detail request of vdab or editx: a failure (HTTP status,
\* network, JSON) or the detail document.
DetailDoc == [html |-> "<p>text</p>"]
DetailResponses ==
    { [ok |-> FALSE, json |-> DetailDoc], [ok |-> TRUE, json |-> DetailDoc] }

\* One <url> of cartiere's sitemap: url['loc'] and url['lastmod'].
SitemapUrl(loc, lastmod) == [loc |-> loc, lastmod |-> lastmod]

SitemapUrls ==
    { SitemapUrl("https://www.cartiere.be/jobs/u1/", TsIso),
      SitemapUrl("https://www.cartiere.be/jobs/u2/", TsIso),
      SitemapUrl(CARTIERE_DUMMY_URL, TsIso),
      SitemapUrl("https://www.cartiere.be/jobs/u2/", TsBad) }

Sitemaps == SeqsUpTo(SitemapUrls, MaxData)

\* jobLocation of a JobPosting: has_address says that ['jobLocation']['address']
\* is there, the other fields are its sub-fields (Absent for a missing key).
JobLocation(has_address, street, postal, locality, region, country) ==
    [has_address |-> has_address, streetAddress |-> street,
     postalCode |-> postal, addressLocality |-> locality,
     addressRegion |-> region, addressCountry |-> country]

\* A full address, one with two sub-fields missing, one with no sub-field at
\* all, and a posting without an address.
FullAddress == JobLocation(TRUE, "Main St 1", "2000", "Antwerpen", "VAN", "BE")
PartAddress == JobLocation(TRUE, Absent, "2000", "Antwerpen", Absent, "BE")
BareAddress == JobLocation(TRUE, Absent, Absent, Absent, Absent, Absent)
NoAddress == JobLocation(FALSE, Absent, Absent, Absent, Absent, Absent)

\* The JobPosting of a cartiere job page, reduced to the fields read.
Posting(title, employmentType, datePosted) ==
    [title |-> title, employmentType |-> employmentType,
     datePosted |-> datePosted, description |-> "<p>text</p>",
     jobLocation |-> FullAddress]

PostingAt(jobLocation) ==
    [Posting("Engineer", "FULL_TIME", TsIso) EXCEPT !.jobLocation = jobLocation]

Postings ==
    { Posting("Engineer", "FULL_TIME", TsIso),
      Posting("Engineer", "FREELANCE", TsIso),
      Posting("Engineer", Absent, TsIso),
      Posting(Absent, "FULL_TIME", TsIso),
      Posting("Engineer", "FULL_TIME", TsBad),
      PostingAt(PartAddress), PostingAt(BareAddress), PostingAt(NoAddress) }

\* The answer to the request for one job page: ok is FALSE for an HTTP
\* failure and for a page without a JobPosting in its LD JSON.
JobPages == { [ok |-> o, posting |-> p] : o \in BOOLEAN, p \in Postings }

\* randint(a, b): any integer of a..b.
randint(a, b) == a..b

\* ------------------------------------------------------------------- state
VARIABLES
    source,         \* which script runs
    fetch_details,  \* editx main's flag (-d); TRUE for the other scripts
    pc,             \* the function main is in, "done" or "raised"
    i,              \* the loop index of the running function
    total,          \* editx get_data: raw_data['total']
    count,          \* editx get_data: raw_data['count']
    page_count,     \* editx get_data: page_count
    data,           \* the list of references
    details,        \* vdab, editx: the dict of detail records by id
    feed,           \* the entries handed to the FeedGenerator, in call order
    written,        \* the feed file was written
    exit_code,      \* the exit status of the process
    sleeping,       \* the duration of the time.sleep in progress, 0 if none
    trace           \* history: the requests, the sleeps and the entries
                    \* added to the feed, in the order they happened

vars == << source, fetch_details, pc, i, total, count, page_count, data,
           details, feed, written, exit_code, sleeping, trace >>

EmptyDict == [k \in {} |-> None]

DictSet(d, k, v) == [x \in (DOMAIN d) \cup {k} |-> IF x = k THEN v ELSE d[x]]

PageEvent(p, ok, empty) == [kind |-> "page", page |-> p, ok |-> ok, empty |-> empty]
DetailEvent(idx, id, ok) == [kind |-> "detail", idx |-> idx, id |-> id, ok |-> ok]
SleepEvent(phase) == [kind |-> "sleep", phase |-> phase]
RenderEvent(idx) == [kind |-> "render", idx |-> idx]

Init ==
    /\ source \in Sources
    /\ fetch_details \in (IF source = "editx" THEN BOOLEAN ELSE {TRUE})
    /\ pc = IF source = "cartiere" THEN "get_data" ELSE "config"
    /\ i = 0
    /\ total = 0
    /\ count = 0
    /\ page_count = 0
    /\ data = <<>>
    /\ details = EmptyDict
    /\ feed = <<>>
    /\ written = FALSE
    /\ exit_code = Running
    /\ sleeping = 0
    /\ trace = <<>>

\* An exception leaves main: the interpreter prints it and exits with 1.
Raise ==
    /\ pc' = "raised"
    /\ exit_code' = 1

\* time.sleep(randint(3,10)) returns.
time_sleep ==
    /\ sleeping # 0
    /\ sleeping' = 0
    /\ UNCHANGED << source, fetch_details, pc, i, total, count, page_count,
                    data, details, feed, written, exit_code, trace >>

\* ------------------------------------------------------------ main.py
\* __main__ checks that the configuration file exists, get_date loads it.
vdab_load_config ==
    /\ source = "vdab"
    /\ pc = "config"
    /\ \E cfg \in {"ok", "missing", "malformed"} :
         IF cfg = "ok"
         THEN pc' = "get_data" /\ exit_code' = exit_code
         ELSE Raise
    /\ UNCHANGED << source, fetch_details, i, total, count, page_count, data,
                    details, feed, written, sleeping, trace >>

\* One iteration of get_date's loop: the request for page i.
vdab_get_date ==
    /\ source = "vdab"
    /\ pc = "get_data"
    /\ sleeping = 0
    /\ i < PAGE_COUNT
    /\ \E ok \in BOOLEAN, partial_data \in VdabPages(data), d \in randint(SLEEP_MIN, SLEEP_MAX) :
         IF ~ok
         THEN \* raise_for_status, caught by except Exception: return data
              /\ trace' = Append(trace, PageEvent(i, FALSE, TRUE))
              /\ pc' = "details"
              /\ i' = 0
              /\ UNCHANGED << data, sleeping >>
         ELSE IF Len(partial_data) = 0
         THEN \* break, return data
              /\ trace' = Append(trace, PageEvent(i, TRUE, TRUE))
              /\ pc' = "details"
              /\ i' = 0
              /\ UNCHANGED << data, sleeping >>
         ELSE /\ data' = data \o partial_data
              /\ i' = i + 1
              /\ pc' = pc
              /\ IF i < PAGE_COUNT - 1
                 THEN /\ trace' = trace \o << PageEvent(i, TRUE, FALSE),
                                              SleepEvent("get_data") >>
                      /\ sleeping' = d
                 ELSE /\ trace' = Append(trace, PageEvent(i, TRUE, FALSE))
                      /\ sleeping' = sleeping
    /\ UNCHANGED << source, fetch_details, total, count, page_count, details,
                    feed, written, exit_code >>

\* get_date's loop has run PAGE_COUNT times: return data.
vdab_get_date_return ==
    /\ source = "vdab"
    /\ pc = "get_data"
    /\ sleeping = 0
    /\ i = PAGE_COUNT
    /\ pc' = "details"
    /\ i' = 0
    /\ UNCHANGED << source, fetch_details, total, count, page_count, data,
                    details, feed, written, exit_code, sleeping, trace >>

\* enumerate walking data from its end.
enumerate_reversed(d) == [k \in 1..Len(d) |-> Len(d) + 1 - k]

\* for i, entry in enumerate(data): the places of data in the order in which
\* the loop visits them (the k-th iteration has i = k - 1).
enumerate(d) == [k \in 1..Len(d) |-> k]

\* vdab_seen without the test: every occurrence of an id is requested.
vdab_seen_never(dets, entry_id) == FALSE

\* if entry_id in details
vdab_seen(dets, entry_id) == entry_id \in DOMAIN dets

\* vdab_details_after with the assignment moved out of the try: the answer
\* is stored whether or not the request succeeded.
vdab_details_after_storing_failures(dets, entry_id, r) ==
    DictSet(dets, entry_id, r.json)

\* The try block around one detail request: details[entry_id] = r.json() on
\* success, nothing but a log line on an exception.
vdab_details_after(dets, entry_id, r) ==
    IF r.ok THEN DictSet(dets, entry_id, r.json) ELSE dets

\* One iteration of get_posting_details's loop, for data[i] (data[i + 1] here).
vdab_get_posting_details ==
    /\ source = "vdab"
    /\ pc = "details"
    /\ sleeping = 0
    /\ i < Len(data)
    /\ LET at == enumerate(data)[i + 1]
           entry == data[at]
           entry_id == entry.id
           post_count == Len(data)
       IN  IF entry_id = Absent
           THEN \* entry['id']['id'] is outside the try: KeyError leaves main
                /\ Raise
                /\ UNCHANGED << i, details, sleeping, trace >>
           ELSE IF vdab_seen(details, entry_id)
           THEN \* continue
                /\ i' = i + 1
                /\ UNCHANGED << pc, exit_code, details, sleeping, trace >>
           ELSE \E r \in DetailResponses, d \in randint(SLEEP_MIN, SLEEP_MAX) :
                /\ i' = i + 1
                /\ UNCHANGED << pc, exit_code >>
                /\ details' = vdab_details_after(details, entry_id, r)
                /\ IF r.ok
                   THEN \* a success is followed by a sleep, except on the last entry
                        IF i < post_count - 1
                           THEN /\ sleeping' = d
                                /\ trace' = trace \o << DetailEvent(at, entry_id, TRUE),
                                                        SleepEvent("details") >>
                           ELSE /\ sleeping' = sleeping
                                /\ trace' = Append(trace, DetailEvent(at, entry_id, TRUE))
                   ELSE \* except Exception: logging.error
                        /\ trace' = Append(trace, DetailEvent(at, entry_id, FALSE))
                        /\ UNCHANGED sleeping
    /\ UNCHANGED << source, fetch_details, total, count, page_count, data,
                    feed, written >>

\* get_posting_details's loop is over: return details.
vdab_get_posting_details_return ==
    /\ source = "vdab"
    /\ pc = "details"
    /\ sleeping = 0
    /\ i = Len(data)
    /\ pc' = "generate_feed"
    /\ i' = 0
    /\ UNCHANGED << source, fetch_details, total, count, page_count, data,
                    details, feed, written, exit_code, sleeping, trace >>

\* A feed entry: the fields set on the FeedEntry so far.  idx is the place in
\* data of the listing it was added for; location is the text that follows
\* 'Locatie: ' in the content (cartiere); complete says that the try block
\* that fills the entry ran to its end.
NewEntry(idx) ==
    [idx |-> idx, title |-> Absent, link |-> Absent, published |-> Absent,
     content |-> Absent, location |-> Absent, complete |-> FALSE]

\* add_entry with the new entry put in front of the ones added before it.
add_entry_in_front(fg, fe) == << fe >> \o fg

\* fe = fg.add_entry(): the script hands one more entry to the FeedGenerator.
\* fg lists the entries in the order of the calls.
add_entry(fg, fe) == Append(fg, fe)

\* feedgen's published(str): the parsed time, ValueError (here None) when the
\* string is no timestamp.
feedgen_parse(ts) == IF ts \in {TsIso, TsEditx} THEN "datetime " \o ts ELSE None

\* The body of generate_feed's loop for one listing, lines 99-139: the entry
\* as it is left in the feed.  An exception inside the try is logged and
\* leaves the entry with the fields set before it.
vdab_entry(idx, entry, dets) ==
    LET fe0 == NewEntry(idx)
    IN  IF entry.title = Absent \/ entry.company = Absent
        THEN fe0
        ELSE LET fe1 == [fe0 EXCEPT
                           !.title = entry.title \o " (" \o entry.company \o ")",
                           !.link = VDAB_BASE_URL \o "/" \o entry.id]
             IN  IF entry.ts = Absent \/ feedgen_parse(entry.ts) = None
                 THEN fe1
                 ELSE [fe1 EXCEPT
                         !.published = feedgen_parse(entry.ts),
                         !.content = IF entry.id \in DOMAIN dets
                                     THEN "<ul>facts</ul>" \o dets[entry.id].html
                                     ELSE "<ul>facts</ul>",
                         !.complete = TRUE]

\* One iteration of generate_feed's loop.
vdab_generate_feed ==
    /\ source = "vdab"
    /\ pc = "generate_feed"
    /\ i < Len(data)
    /\ LET entry == data[i + 1]
       IN  IF entry.id = Absent
           THEN \* fg.add_entry(), then entry['id']['id'] raises outside the try
                /\ feed' = add_entry(feed, NewEntry(i + 1))
                /\ Raise
                /\ i' = i
           ELSE /\ feed' = add_entry(feed, vdab_entry(i + 1, entry, details))
                /\ i' = i + 1
                /\ UNCHANGED << pc, exit_code >>
    /\ trace' = Append(trace, RenderEvent(i + 1))
    /\ UNCHANGED << source, fetch_details, total, count, page_count, data,
                    details, written, sleeping >>

\* fg.rss_file(output_file); main returns and the process exits with 0.
vdab_rss_file ==
    /\ source = "vdab"
    /\ pc = "generate_feed"
    /\ i = Len(data)
    /\ written' = TRUE
    /\ pc' = "done"
    /\ exit_code' = 0
    /\ UNCHANGED << source, fetch_details, i, total, count, page_count, data,
                    details, feed, sleeping, trace >>

\* ------------------------------------------------------------ editx.py
\* __main__ checks that the configuration file exists, get_data loads it.
editx_load_config ==
    /\ source = "editx"
    /\ pc = "config"
    /\ \E cfg \in {"ok", "missing", "malformed"} :
         IF cfg = "ok"
         THEN pc' = "get_data" /\ exit_code' = exit_code
         ELSE Raise
    /\ UNCHANGED << source, fetch_details, i, total, count, page_count, data,
                    details, feed, written, sleeping, trace >>

\* get_data up to the loop: the request for page 0 and the page arithmetic.
\* When no further page is wanted, page_count stays 0 and i = 1 ends the loop.
editx_get_data_first ==
    /\ source = "editx"
    /\ pc = "get_data"
    /\ i = 0
    /\ \E ok \in BOOLEAN, jobs \in EditxPages(data), h \in EditxHeaders :
         IF ~ok
         THEN \* raise_for_status; except Exception: raise
              /\ trace' = Append(trace, PageEvent(0, FALSE, TRUE))
              /\ Raise
              /\ UNCHANGED << i, total, count, page_count, data >>
         ELSE /\ trace' = Append(trace, PageEvent(0, TRUE, Len(jobs) = 0))
              /\ data' = jobs
              /\ total' = h[1]
              /\ count' = h[2]
              /\ IF h[1] > h[2]
                 THEN IF h[2] = 0
                      THEN \* total % count: ZeroDivisionError; except: raise
                           /\ Raise
                           /\ UNCHANGED << i, page_count >>
                      ELSE /\ page_count' = h[1] % h[2]
                           /\ i' = 1
                           /\ UNCHANGED << pc, exit_code >>
                 ELSE /\ i' = 1
                      /\ UNCHANGED << pc, exit_code, page_count >>
    /\ UNCHANGED << source, fetch_details, details, feed, written, sleeping >>

\* One iteration of for i in range(1, page_count): the request for page i.
editx_get_data_next ==
    /\ source = "editx"
    /\ pc = "get_data"
    /\ i >= 1
    /\ i < page_count
    /\ \E ok \in BOOLEAN, jobs \in EditxPages(data) :
         IF ~ok
         THEN \* raise_for_status; except Exception: raise
              /\ trace' = Append(trace, PageEvent(i, FALSE, TRUE))
              /\ Raise
              /\ UNCHANGED << i, data >>
         ELSE /\ trace' = Append(trace, PageEvent(i, TRUE, Len(jobs) = 0))
              /\ data' = data \o jobs
              /\ i' = i + 1
              /\ UNCHANGED << pc, exit_code >>
    /\ UNCHANGED << source, fetch_details, total, count, page_count, details,
                    feed, written, sleeping >>

\* get_data returns data; main goes on to get_posting_details if fetch_details.
editx_get_data_return ==
    /\ source = "editx"
    /\ pc = "get_data"
    /\ i >= 1
    /\ i >= page_count
    /\ pc' = IF fetch_details THEN "details" ELSE "generate_feed"
    /\ i' = 0
    /\ total' = 0
    /\ count' = 0
    /\ page_count' = 0
    /\ UNCHANGED << source, fetch_details, data, details, feed, written,
                    exit_code, sleeping, trace >>

\* if entry_id in details
editx_seen(dets, entry_id) == entry_id \in DOMAIN dets

\* The try block around one detail request: details[entry_id] = r.json() on
\* success, nothing but a log line on an exception.
editx_details_after(dets, entry_id, r) ==
    IF r.ok THEN DictSet(dets, entry_id, r.json) ELSE dets

\* One iteration of get_posting_details's loop, for data[i] (data[i + 1] here).
editx_get_posting_details ==
    /\ source = "editx"
    /\ pc = "details"
    /\ sleeping = 0
    /\ i < Len(data)
    /\ LET at == enumerate(data)[i + 1]
           entry == data[at]
           entry_id == entry.id
           post_count == Len(data)
       IN  IF entry_id = Absent
           THEN \* entry['id'] is outside the try: KeyError leaves main
                /\ Raise
                /\ UNCHANGED << i, details, sleeping, trace >>
           ELSE IF editx_seen(details, entry_id)
           THEN \* continue
                /\ i' = i + 1
                /\ UNCHANGED << pc, exit_code, details, sleeping, trace >>
           ELSE \E r \in DetailResponses, d \in randint(SLEEP_MIN, SLEEP_MAX) :
                /\ i' = i + 1
                /\ UNCHANGED << pc, exit_code >>
                /\ details' = editx_details_after(details, entry_id, r)
                /\ IF r.ok
                   THEN \* a success is followed by a sleep, except on the last entry
                        IF i < post_count - 1
                           THEN /\ sleeping' = d
                                /\ trace' = trace \o << DetailEvent(at, entry_id, TRUE),
                                                        SleepEvent("details") >>
                           ELSE /\ sleeping' = sleeping
                                /\ trace' = Append(trace, DetailEvent(at, entry_id, TRUE))
                   ELSE \* except Exception: logging.error
                        /\ trace' = Append(trace, DetailEvent(at, entry_id, FALSE))
                        /\ UNCHANGED sleeping
    /\ UNCHANGED << source, fetch_details, total, count, page_count, data,
                    feed, written >>

\* get_posting_details's loop is over: return details.
editx_get_posting_details_return ==
    /\ source = "editx"
    /\ pc = "details"
    /\ sleeping = 0
    /\ i = Len(data)
    /\ pc' = "generate_feed"
    /\ i' = 0
    /\ UNCHANGED << source, fetch_details, total, count, page_count, data,
                    details, feed, written, exit_code, sleeping, trace >>

\* datetime.strptime(ts_string, '%Y-%m-%d %H:%M:%S'): None stands for ValueError.
strptime(ts_string) == IF ts_string = TsEditx THEN "datetime " \o ts_string ELSE None

\* get_native_ts: the parsed value is bound to ts and never returned, so the
\* function ends without a return statement; a parse error returns None.
get_native_ts(ts_string) == IF strptime(ts_string) = None THEN None ELSE None

\* The body of generate_feed's loop for one listing, lines 112-165.
\* fe.published(None) reads the field and sets nothing.
editx_entry(idx, entry, dets) ==
    LET fe0 == NewEntry(idx)
    IN  IF entry.title = Absent \/ entry.company = Absent
        THEN fe0
        ELSE LET fe1 == [fe0 EXCEPT
                           !.title = entry.title \o " (" \o entry.company \o ")",
                           !.link = EDITX_BASE_URL \o "/" \o entry.id]
             IN  IF entry.ts = Absent
                 THEN fe1
                 ELSE [fe1 EXCEPT
                         !.published = IF get_native_ts(entry.ts) = None
                                       THEN Absent
                                       ELSE get_native_ts(entry.ts),
                         !.content = IF entry.id \in DOMAIN dets
                                     THEN "<ul>facts</ul>" \o dets[entry.id].html
                                     ELSE "<ul>facts</ul>",
                         !.complete = TRUE]

\* One iteration of generate_feed's loop.
editx_generate_feed ==
    /\ source = "editx"
    /\ pc = "generate_feed"
    /\ i < Len(data)
    /\ LET entry == data[i + 1]
       IN  IF entry.id = Absent
           THEN \* fg.add_entry(), then entry['id'] raises outside the try
                /\ feed' = add_entry(feed, NewEntry(i + 1))
                /\ Raise
                /\ i' = i
           ELSE /\ feed' = add_entry(feed, editx_entry(i + 1, entry, details))
                /\ i' = i + 1
                /\ UNCHANGED << pc, exit_code >>
    /\ trace' = Append(trace, RenderEvent(i + 1))
    /\ UNCHANGED << source, fetch_details, total, count, page_count, data,
                    details, written, sleeping >>

\* fg.atom_file(output_file); main returns and the process exits with 0.
editx_atom_file ==
    /\ source = "editx"
    /\ pc = "generate_feed"
    /\ i = Len(data)
    /\ written' = TRUE
    /\ pc' = "done"
    /\ exit_code' = 0
    /\ UNCHANGED << source, fetch_details, i, total, count, page_count, data,
                    details, feed, sleeping, trace >>

\* --------------------------------------------------------- cartiere.py
\* datetime.fromisoformat(s): None stands for ValueError.
fromisoformat(s) == IF s = TsIso THEN "datetime " \o s ELSE None

\* The list get_data builds from the sitemap: the dummy entry is skipped.
RECURSIVE cartiere_urls(_)
cartiere_urls(job_listing) ==
    IF job_listing = <<>>
    THEN <<>>
    ELSE LET url == Head(job_listing)
             rest == cartiere_urls(Tail(job_listing))
         IN  IF url.loc = CARTIERE_DUMMY_URL
             THEN rest
             ELSE << [url |-> url.loc,
                      lastModification |-> fromisoformat(url.lastmod)] >> \o rest

\* get_data: the single request for the sitemap.  A lastmod that does not
\* parse raises inside the try, which logs and raises again.
cartiere_get_data ==
    /\ source = "cartiere"
    /\ pc = "get_data"
    /\ \E ok \in BOOLEAN, job_listing \in Sitemaps :
         /\ trace' = Append(trace, PageEvent(0, ok, Len(job_listing) = 0))
         /\ IF ~ok \/ \E k \in 1..Len(job_listing) :
                          /\ job_listing[k].loc # CARTIERE_DUMMY_URL
                          /\ fromisoformat(job_listing[k].lastmod) = None
            THEN /\ Raise
                 /\ UNCHANGED data
            ELSE /\ data' = cartiere_urls(job_listing)
                 /\ pc' = "details"
                 /\ UNCHANGED exit_code
    /\ UNCHANGED << source, fetch_details, i, total, count, page_count,
                    details, feed, written, sleeping >>

\* extract_data_from_page raises: the request or the LD JSON failed, or a
\* date of the posting does not parse (datePosted stands for both dates).
extract_raises(page) ==
    ~page.ok \/ fromisoformat(page.posting.datePosted) = None

\* What extract_data_from_page returns when it does not raise.
extract_data_from_page(page) ==
    [page.posting EXCEPT !.datePosted = fromisoformat(page.posting.datePosted)]

\* entry['details'] = value
WithDetails(entry, value) ==
    [url |-> entry.url, lastModification |-> entry.lastModification,
     details |-> value]

\* One iteration of add_posting_details's loop, for data[i] (data[i+1] here).
cartiere_add_posting_details ==
    /\ source = "cartiere"
    /\ pc = "details"
    /\ sleeping = 0
    /\ i < Len(data)
    /\ LET at == enumerate(data)[i + 1]
           entry == data[at]
           post_count == Len(data)
       IN  \E page \in JobPages, d \in randint(SLEEP_MIN, SLEEP_MAX) :
             /\ i' = i + 1
             /\ IF ~extract_raises(page)
                THEN /\ data' = [data EXCEPT ![at] =
                                   WithDetails(entry, extract_data_from_page(page))]
                     /\ IF i < post_count - 1
                        THEN /\ sleeping' = d
                             /\ trace' = trace \o << DetailEvent(at, entry.url, TRUE),
                                                     SleepEvent("details") >>
                        ELSE /\ sleeping' = sleeping
                             /\ trace' = Append(trace, DetailEvent(at, entry.url, TRUE))
                ELSE \* except Exception: logging.error
                     /\ trace' = Append(trace, DetailEvent(at, entry.url, FALSE))
                     /\ UNCHANGED << data, sleeping >>
    /\ UNCHANGED << source, fetch_details, pc, total, count, page_count,
                    details, feed, written, exit_code >>

\* add_posting_details's loop is over.
cartiere_add_posting_details_return ==
    /\ source = "cartiere"
    /\ pc = "details"
    /\ sleeping = 0
    /\ i = Len(data)
    /\ pc' = "generate_feed"
    /\ i' = 0
    /\ UNCHANGED << source, fetch_details, total, count, page_count, data,
                    details, feed, written, exit_code, sleeping, trace >>

\* 'details' in entry
HasDetails(entry) == "details" \in DOMAIN entry

\* The keys get_address reads, in its order.
ADDRESS_KEYS ==
    << "streetAddress", "postalCode", "addressLocality", "addressRegion",
       "addressCountry" >>

\* sep.join(fields)
RECURSIVE join(_, _)
join(sep, fields) ==
    IF fields = <<>> THEN ""
    ELSE IF Len(fields) = 1 THEN fields[1]
    ELSE fields[1] \o sep \o join(sep, Tail(fields))

\* The inner try of get_address: a missing key is skipped.
IsThere(v) == v # Absent

\* get_address: None when there is no address to read, else the sub-fields
\* that are there, in the order of ADDRESS_KEYS, joined by ', '.
get_address(listing) ==
    LET address_entry == listing.details.jobLocation
    IN  IF ~address_entry.has_address
        THEN None
        ELSE join(", ", SelectSeq([k \in 1..Len(ADDRESS_KEYS) |->
                                      address_entry[ADDRESS_KEYS[k]]], IsThere))

\* f'{value}': the text an f-string puts for a value.
format(value) == IF value = None THEN "None" ELSE value

\* is_freelance with the test dropped: no listing is filtered out.
is_freelance_never(entry) == FALSE

\* entry['details']['employmentType'] == 'FREELANCE'
is_freelance(entry) == entry.details.employmentType = "FREELANCE"

\* The try block of generate_feed's loop for one listing, lines 129-155.
cartiere_entry(idx, entry) ==
    LET fe0 == NewEntry(idx)
    IN  IF entry.details.title = Absent
        THEN fe0
        ELSE [fe0 EXCEPT
                !.title = entry.details.title,
                !.link = entry.url,
                !.published = entry.details.datePosted,
                !.location = format(get_address(entry)),
                !.content = "<ul><li>Locatie: " \o format(get_address(entry))
                            \o "</li></ul>" \o entry.details.description,
                !.complete = TRUE]

\* One iteration of generate_feed's loop.
cartiere_generate_feed ==
    /\ source = "cartiere"
    /\ pc = "generate_feed"
    /\ i < Len(data)
    /\ LET entry == data[i + 1]
       IN  IF ~HasDetails(entry)
           THEN \* continue
                /\ i' = i + 1
                /\ UNCHANGED << feed, pc, exit_code, trace >>
           ELSE IF entry.details.employmentType = Absent
           THEN \* entry['details']['employmentType'] is outside the try
                /\ Raise
                /\ UNCHANGED << feed, i, trace >>
           ELSE IF is_freelance(entry)
           THEN \* continue
                /\ i' = i + 1
                /\ UNCHANGED << feed, pc, exit_code, trace >>
           ELSE /\ feed' = add_entry(feed, cartiere_entry(i + 1, entry))
                /\ trace' = Append(trace, RenderEvent(i + 1))
                /\ i' = i + 1
                /\ UNCHANGED << pc, exit_code >>
    /\ UNCHANGED << source, fetch_details, total, count, page_count, data,
                    details, written, sleeping >>

\* fg.atom_file(output_file); main returns and the process exits with 0.
cartiere_atom_file ==
    /\ source = "cartiere"
    /\ pc = "generate_feed"
    /\ i = Len(data)
    /\ written' = TRUE
    /\ pc' = "done"
    /\ exit_code' = 0
    /\ UNCHANGED << source, fetch_details, i, total, count, page_count, data,
                    details, feed, sleeping, trace >>

\* ------------------------------------------------------------ the run
Next ==
    \/ time_sleep
    \/ vdab_load_config
    \/ vdab_get_date
    \/ vdab_get_date_return
    \/ vdab_get_posting_details
    \/ vdab_get_posting_details_return
    \/ vdab_generate_feed
    \/ vdab_rss_file
    \/ editx_load_config
    \/ editx_get_data_first
    \/ editx_get_data_next
    \/ editx_get_data_return
    \/ editx_get_posting_details
    \/ editx_get_posting_details_return
    \/ editx_generate_feed
    \/ editx_atom_file
    \/ cartiere_get_data
    \/ cartiere_add_posting_details
    \/ cartiere_add_posting_details_return
    \/ cartiere_generate_feed
    \/ cartiere_atom_file

Spec == Init /\ [][Next]_vars

\* A run of main.py alone.  The process is one thread that runs until it
\* exits and every request and every sleep returns: a step that can be taken
\* is taken.
VdabInit == Init /\ source = "vdab"

VdabNext ==
    \/ time_sleep
    \/ vdab_load_config
    \/ vdab_get_date
    \/ vdab_get_date_return
    \/ vdab_get_posting_details
    \/ vdab_get_posting_details_return
    \/ vdab_generate_feed
    \/ vdab_rss_file

VdabSpec == VdabInit /\ [][VdabNext]_vars /\ WF_vars(VdabNext)

\* =================================================================== claims
\* ------------------------------------------------ reading the history
IsPage(e) == e.kind = "page"
IsDetail(e) == e.kind = "detail"
IsEnrichStep(e) == e.kind = "detail" \/ (e.kind = "sleep" /\ e.phase = "details")
IsEnrichSleep(e) == e.kind = "sleep" /\ e.phase = "details"

\* The page requests, the detail requests, and the detail requests with the
\* sleeps of the enricher, each in the order they happened.
PageReqs == SelectSeq(trace, IsPage)
DetailReqs == SelectSeq(trace, IsDetail)
EnrichSteps == SelectSeq(trace, IsEnrichStep)
EnrichSleeps == SelectSeq(trace, IsEnrichSleep)

\* The id of a reference: the url for cartiere.
RefId(e) == IF source = "cartiere" THEN e.url ELSE e.id

\* main calls the enricher (editx only with -d).
EnrichRuns == source # "editx" \/ fetch_details

\* The enricher has returned.
EnrichDone ==
    /\ EnrichRuns
    /\ \/ pc = "details" /\ i = Len(data)
       \/ pc \in {"generate_feed", "done"}

\* How many references the enricher has been through.
Processed ==
    IF ~EnrichRuns THEN 0
    ELSE IF pc = "details" THEN i
    ELSE IF pc \in {"generate_feed", "done"} THEN Len(data)
    ELSE 0

DistinctIds ==
    /\ \A k \in 1..Len(data) : RefId(data[k]) # Absent
    /\ \A k, j \in 1..Len(data) : RefId(data[k]) = RefId(data[j]) => k = j

\* The places in data whose detail request succeeded.
OkIdx == { trace[j].idx : j \in { n \in 1..Len(trace) : IsDetail(trace[n]) /\ trace[n].ok } }

\* A step that issues a page request.
PageRequestStep ==
    /\ Len(trace') > Len(trace)
    /\ IsPage(trace'[Len(trace) + 1])

Ceil(a, b) == (a + b - 1) \div b

\* ---------------------------------------------------------------- C1
\* C1: in every source, when the first enumeration request (page 0, or the
\* sitemap request) fails, the failure leaves the enumerator: the run ends
\* with a non-zero exit, with no reference collected, no detail request and
\* no feed file.
C1_FirstRequestFailureIsFatal ==
    (trace # <<>> /\ IsPage(trace[1]) /\ ~trace[1].ok) =>
        /\ pc = "raised"
        /\ exit_code = 1
        /\ data = <<>>
        /\ DetailReqs = <<>>
        /\ ~written

\* ---------------------------------------------------------------- C2
\* A step of vdab or editx in which the request for a page k >= 1 fails.
C2_LaterPageFailureStep ==
    /\ source \in {"vdab", "editx"}
    /\ PageRequestStep
    /\ trace'[Len(trace) + 1].page >= 1
    /\ ~trace'[Len(trace) + 1].ok

\* C2: in vdab and editx, a step in which the request for a page k >= 1
\* fails ends the enumeration without raising: the references collected so
\* far are kept and the run goes on to the next phase (from which the feed is
\* written); and no page is requested once a request has failed.
C2_LaterPageFailureIsPartialSuccess ==
    [][/\ C2_LaterPageFailureStep =>
            /\ pc' \in {"details", "generate_feed"}
            /\ exit_code' = Running
            /\ data' = data
       /\ PageRequestStep => \A k \in 1..Len(PageReqs) : PageReqs[k].ok]_vars

\* ---------------------------------------------------------------- C3
\* C3: when editx get_data is about to return, with count >= 1, it has
\* issued exactly ceil(total/count) page requests (one when that is 0), for
\* the pages 0 .. ceil(total/count)-1.
C3_Wanted == IF Ceil(total, count) < 1 THEN 1 ELSE Ceil(total, count)

C3_EditxPageRequestsAreCeil ==
    (source = "editx" /\ pc = "get_data" /\ i >= 1 /\ i >= page_count /\ count >= 1) =>
        /\ Len(PageReqs) = C3_Wanted
        /\ \A k \in 1..Len(PageReqs) : PageReqs[k].page < C3_Wanted

\* ---------------------------------------------------------------- C4
\* C4: in vdab and editx, a page after the first that returns zero items is
\* the last page requested: pagination stops there.
C4_EmptyPageStopsPagination ==
    source \in {"vdab", "editx"} =>
        \A k \in 2..Len(PageReqs) :
            (PageReqs[k].ok /\ PageReqs[k].empty) => k = Len(PageReqs)

\* ---------------------------------------------------------------- C5
\* C5: when the references have distinct ids, every reference the enricher
\* has been through got exactly one detail request, whatever failed before
\* it, and the detail mapping holds exactly the ids whose request succeeded.
C5_FaultIsolation ==
    DistinctIds =>
        /\ \A k \in 1..Processed :
             Cardinality({ j \in 1..Len(trace) :
                             IsDetail(trace[j]) /\ trace[j].idx = k }) = 1
        /\ IF source = "cartiere"
           THEN { k \in 1..Len(data) : "details" \in DOMAIN data[k] } = OkIdx
           ELSE DOMAIN details = { data[k].id : k \in OkIdx }

\* The enricher is through three references with distinct ids; the request
\* for the second failed and the one for the third succeeded.
C5_Witness ==
    /\ EnrichDone
    /\ DistinctIds
    /\ Len(data) = 3
    /\ OkIdx = {1, 3}
    /\ Len(DetailReqs) = 3

\* ---------------------------------------------------------------- C6
\* C6: when the enricher has returned from N >= 1 references, it has slept
\* exactly N-1 times (never for N = 1), and every sleep lasts 3..10 seconds.
C6_DelaysAreNMinusOne ==
    /\ sleeping # 0 => sleeping \in 3..10
    /\ (EnrichDone /\ Len(data) >= 1) => Len(EnrichSleeps) = Len(data) - 1

\* ---------------------------------------------------------------- C7
\* C7: the enricher sleeps between any two consecutive detail requests, never
\* before the first and never after the last one of the run.
C7_DelayStrictlyBetweenRequests ==
    LET E == EnrichSteps
    IN  /\ E # <<>> => IsDetail(E[1])
        /\ \A k \in 1..(Len(E) - 1) : IsDetail(E[k]) => ~IsDetail(E[k + 1])
        /\ (EnrichDone /\ E # <<>>) => IsDetail(E[Len(E)])

\* ---------------------------------------------------------------- C8
\* The places of the detail requests in the trace.
DetailAt == { j \in 1..Len(trace) : IsDetail(trace[j]) }

\* C8 as stated: in vdab and editx at most one detail request is issued per
\* id in a run.
C8_AtMostOneRequestPerId ==
    source \in {"vdab", "editx"} =>
        \A j1, j2 \in DetailAt : trace[j1].id = trace[j2].id => j1 = j2

\* C8 amended: in vdab and editx, once the detail request for an id has
\* succeeded no further request is issued for that id, so an id has at most
\* one successful request and its mapping entry is written at most once; an
\* id whose request failed is requested again at its next occurrence.
C8_NoRequestAfterSuccess ==
    source \in {"vdab", "editx"} =>
        \A j1 \in { j \in DetailAt : trace[j].ok } :
            \A j2 \in DetailAt : trace[j1].id = trace[j2].id => j2 <= j1

\* The enricher is through two references with the same id: the request for
\* the first succeeded and the second was skipped.
C8_Witness ==
    /\ source \in {"vdab", "editx"}
    /\ EnrichDone
    /\ Len(data) >= 2
    /\ data[1].id = data[2].id
    /\ 1 \in OkIdx
    /\ \A j \in DetailAt : trace[j].idx # 2

\* ---------------------------------------------------------------- C9
\* C9: the feed that is written holds no entry for a listing whose rendering
\* raised: every entry in it was filled to the end.
C9_NoEntryForFailedRendering ==
    written => \A k \in 1..Len(feed) : feed[k].complete

\* --------------------------------------------------------------- C10
\* C10: after the enumeration, no step of the enricher or of the feed
\* generation lets an exception leave the run.
C10_NoPerItemFailureEscapes ==
    [][(pc \in {"details", "generate_feed"}) => (pc' # "raised")]_vars

\* --------------------------------------------------------------- C11
\* C11: every entry of the feed that is written has a title and a link (the
\* link is also its id), both non-empty; a listing from which they cannot be
\* derived has no entry in it.
C11_EntriesHaveIdLinkTitle ==
    written =>
        \A k \in 1..Len(feed) :
            /\ feed[k].title \notin {Absent, ""}
            /\ feed[k].link \notin {Absent, ""}

\* --------------------------------------------------------------- C12
\* C12: in vdab and editx, a run over two references, a with the title
\* "Engineer" and b with an empty title, in which the detail request
\* succeeded for a only, writes a feed with exactly one entry, the one for a.
C12_EndToEndOneEntry ==
    ( /\ source \in {"vdab", "editx"}
      /\ written
      /\ Len(data) = 2
      /\ data[1].id = "a" /\ data[1].title = "Engineer"
      /\ data[2].id = "b" /\ data[2].title = ""
      /\ OkIdx = {1} /\ Len(DetailReqs) = 2 ) =>
        /\ Len(feed) = 1
        /\ feed[1].idx = 1

C14_Phase(e) ==
    IF e.kind = "page" THEN 1
    ELSE IF e.kind = "detail" THEN 2
    ELSE IF e.kind = "render" THEN 3
    ELSE IF e.phase = "get_data" THEN 1 ELSE 2

\* C14: the phases are strictly sequential.  In the history of a run every
\* page request comes before every detail request and every detail request
\* before every entry added to the feed; the detail requests are issued in
\* the order of the references in data.
C14_PhasesSequential ==
    /\ \A j \in 1..(Len(trace) - 1) : C14_Phase(trace[j]) <= C14_Phase(trace[j + 1])
    /\ \A k \in 1..(Len(DetailReqs) - 1) : DetailReqs[k].idx < DetailReqs[k + 1].idx

\* A run that made two page requests, then two detail requests, then two
\* entries, and wrote the feed.
C14_Witness ==
    /\ written
    /\ Len(PageReqs) >= 2
    /\ Len(DetailReqs) >= 2
    /\ Len(feed) >= 2

\* --------------------------------------------------------------- C15
\* The listings cartiere's generate_feed has been through.
C15_Through == IF pc \in {"generate_feed", "done", "raised"} THEN i ELSE 0

C16_BadTimestampDoesNotAbort ==
    (source = "cartiere" /\ Len(trace) = 1 /\ trace[1].ok) => pc # "raised"

\* --------------------------------------------------------------- C17
\* C17: in editx, for a listing whose onlineDate is a well-formed
\* 'YYYY-MM-DD HH:MM:SS' string, get_native_ts yields the parsed timestamp
\* and the entry filled for the listing has it as its published time.
C17_WellFormedTimestampIsSet ==
    source = "editx" =>
        \A n \in 1..Len(feed) :
            (feed[n].complete /\ strptime(data[feed[n].idx].ts) # None) =>
                /\ get_native_ts(data[feed[n].idx].ts) = strptime(data[feed[n].idx].ts)
                /\ feed[n].published = strptime(data[feed[n].idx].ts)

\* --------------------------------------------------------------- C18
\* The sub-fields of the address of a listing that are there, in order.
C18_Fields(listing) ==
    LET a == listing.details.jobLocation
    IN  IF ~a.has_address THEN <<>>
        ELSE SelectSeq(<< a.streetAddress, a.postalCode, a.addressLocality,
                          a.addressRegion, a.addressCountry >>, IsThere)

\* C18: in cartiere, the location of an entry is the sub-fields of the
\* address that are present, in the fixed order, joined by ', '; when none is
\* present, or there is no address, the location is absent: it is neither
\* the empty string nor a placeholder text.
C18_LocationJoinedOrAbsent ==
    source = "cartiere" =>
        \A n \in 1..Len(feed) :
            feed[n].complete =>
                LET fields == C18_Fields(data[feed[n].idx])
                IN  IF fields = <<>>
                    THEN feed[n].location = Absent
                    ELSE feed[n].location = join(", ", fields)

\* --------------------------------------------------------------- C19
\* C19: when editx get_data is about to return (every page request having
\* succeeded), with count >= 1, each upstream page 0 .. ceil(total/count)-1
\* was requested exactly once and the pages were requested in page order.
\* data is the concatenation of the answers in request order, so it holds the
\* listings of exactly the pages requested.
C19_EveryUpstreamPageCollected ==
    (source = "editx" /\ pc = "get_data" /\ i >= 1 /\ i >= page_count /\ count >= 1) =>
        /\ \A p \in 0..(Ceil(total, count) - 1) :
              Cardinality({ k \in 1..Len(PageReqs) : PageReqs[k].page = p }) = 1
        /\ \A k \in 1..(Len(PageReqs) - 1) : PageReqs[k].page < PageReqs[k + 1].page

\* --------------------------------------------------------------- C20
\* get_date has made at most 20 page requests, for the pages 0, 1, 2, ... in
\* this order, without a gap and without a repeat.
C20_PagesInOrder ==
    /\ Len(PageReqs) <= 20
    /\ \A k \in 1..Len(PageReqs) : PageReqs[k].page = k - 1

\* C20: vdab's get_date issues at most PAGE_COUNT = 20 page requests, for the
\* page indices 0, 1, 2, ... in increasing order without gaps or repeats, and
\* the enumeration always ends: the run leaves get_date.
C20_BoundedOrderedTerminating ==
    /\ [](source = "vdab" => C20_PagesInOrder)
    /\ <>(pc \notin {"config", "get_data"})

\* get_date has returned after 20 page requests, the cap.
C20_Witness ==
    /\ source = "vdab"
    /\ pc = "details"
    /\ Len(PageReqs) = 20
    /\ PageReqs[20].page = 19
====
